---- MODULE Spec2Model ----
(***************************************************************************)
(* Segregated-list dynamic memory allocator (src/mm.c).                    *)
(*                                                                         *)
(* The heap is modelled as the allocator sees it: an array of 8-byte words *)
(* addressed by byte address, holding headers, footers, list roots, list   *)
(* links and payload data alike.  Every helper of mm.c is an operator on a *)
(* heap record h; a helper that returns a pointer returns [h, ret].        *)
(* Words are SizeBits wide (size_t scaled down), arithmetic wraps.         *)
(* An access outside the arena, an unaligned word access, or a loop that   *)
(* does not terminate sets h.fault: the call never returns.                *)
(***************************************************************************)
EXTENDS Integers, Naturals, Sequences, FiniteSets, TLC

\* ---- program constants (src/mm.c:16-24) ----
WSIZE == 8
DWORD == 16
CHUNKSIZE == 256
MAX_LISTS == 16
MinRequest == 32
FragLimit == 64

\* ---- bounds of the model ----
SizeBits == 10          \* width of size_t and of a pointer, scaled down
MaxChunks == 3          \* arena size, in CHUNKSIZE units after the 19 init words
MaxOps == 4             \* number of public calls in a run
MaxOpsWide == 4         \* the same, in runs that also make overflowing requests
MaxFill == 1            \* number of caller writes in a run

SizeMod == 2 ^ SizeBits
NULL == 0
HeapBase == 2 * WSIZE                      \* 16-byte aligned start of the arena
InitBytes == (MAX_LISTS + 3) * WSIZE
ArenaEnd == HeapBase + InitBytes + MaxChunks * CHUNKSIZE
ArenaWords == ArenaEnd \div WSIZE
SbrkFail == SizeMod - 1                    \* (void *)-1

Add(a, b) == (a + b) % SizeMod
Sub(a, b) == (a + SizeMod - (b % SizeMod)) % SizeMod
Mul(a, b) == (a * b) % SizeMod

\* ---- raw memory ----
Valid(a) == a % WSIZE = 0 /\ a >= HeapBase /\ a < ArenaEnd
AllValid(S) == \A a \in S : Valid(a)
Fault(h) == [h EXCEPT !.fault = TRUE]
GET(h, p) == h.mem[IF p % WSIZE = 0 THEN p \div WSIZE ELSE ArenaWords]
PUT(h, p, val) ==
    IF h.fault \/ ~Valid(p) THEN Fault(h)
    ELSE [h EXCEPT !.mem[p \div WSIZE] = val % SizeMod]

\* ---- block encoding ----
PACK(size, prev_alloc, alloc) ==
    LET low == size % 4
        b1 == IF (low \div 2) = 1 \/ prev_alloc = 2 THEN 2 ELSE 0
        b0 == IF low % 2 = 1 \/ alloc = 1 THEN 1 ELSE 0
    IN  (size - low) + b1 + b0
SizeOf(w) == w - (w % 8)
PrevAllocOf(w) == IF (w % 4) \div 2 = 1 THEN 2 ELSE 0
AllocOf(w) == w % 2
GET_SIZE(h, p) == SizeOf(GET(h, p))
GET_PREV_ALLOC(h, p) == PrevAllocOf(GET(h, p))
GET_ALLOC(h, p) == AllocOf(GET(h, p))
NEXT_ADDRESS(ptr) == ptr
PREV_ADDRESS(ptr) == Add(ptr, WSIZE)
HDRP(ptr) == Sub(ptr, WSIZE)
FTRP(h, ptr) == Sub(Add(ptr, GET_SIZE(h, HDRP(ptr))), DWORD)
NEXT_BLOCK(h, ptr) == Add(ptr, GET_SIZE(h, HDRP(ptr)))
PREV_BLOCK(h, ptr) == Sub(ptr, GET_SIZE(h, Sub(ptr, DWORD)))
NEXT_FLIST_ADDRESS(h, ptr) == GET(h, ptr)
PREV_FLIST_ADDRESS(h, ptr) == GET(h, PREV_ADDRESS(ptr))
RootAddr(h, list) == Add(h.free_start, list * WSIZE)
GET_ROOT(h, list) == GET(h, RootAddr(h, list))
SET_ROOT(h, list, new_root) == PUT(h, RootAddr(h, list), new_root)

\* ---- get_list: clear bits from the low end until the size is zero ----
RECURSIVE get_list_loop(_, _)
get_list_loop(size, list_check) ==
    IF size > 0 /\ list_check < MAX_LISTS - 1
    THEN get_list_loop(IF (size \div (2 ^ list_check)) % 2 = 1
                       THEN size - 2 ^ list_check ELSE size,
                       list_check + 1)
    ELSE list_check
get_list(size) == get_list_loop(size, 0)

\* ---- remove_block ----
remove_block(h, ptr) ==
    IF h.fault \/ ~AllValid({HDRP(ptr), ptr, PREV_ADDRESS(ptr)}) THEN Fault(h)
    ELSE
    LET list_num == get_list(GET_SIZE(h, HDRP(ptr)))
        prev_node == PREV_FLIST_ADDRESS(h, ptr)
        next_node == NEXT_FLIST_ADDRESS(h, ptr)
        h1 == IF prev_node = NULL /\ next_node = NULL
                 THEN SET_ROOT(h, list_num, NULL)
              ELSE IF next_node = NULL
                 THEN PUT(h, NEXT_ADDRESS(prev_node), NULL)
              ELSE IF prev_node = NULL
                 THEN PUT(SET_ROOT(h, list_num, next_node),
                          PREV_ADDRESS(next_node), NULL)
              ELSE PUT(PUT(h, PREV_ADDRESS(next_node), prev_node),
                       NEXT_ADDRESS(prev_node), next_node)
    IN  PUT(PUT(h1, PREV_ADDRESS(ptr), NULL), NEXT_ADDRESS(ptr), NULL)

\* ---- add_block ----
\* the while loop of add_block; NULL + 1 (never an address) reports a fault
RECURSIVE add_block_walk(_, _, _, _)
add_block_walk(h, root_trace, new_ptr, fuel) ==
    IF ~Valid(root_trace) \/ fuel = 0 THEN 1
    ELSE IF root_trace < new_ptr /\ NEXT_FLIST_ADDRESS(h, root_trace) # NULL
    THEN add_block_walk(h, NEXT_FLIST_ADDRESS(h, root_trace), new_ptr, fuel - 1)
    ELSE root_trace

\* cases 4 and 5: link new_ptr in beside root_trace, where the walk stopped
add_block_link(h, new_ptr, root_trace) ==
    IF ~AllValid({root_trace, PREV_ADDRESS(root_trace)}) THEN Fault(h)
    ELSE
    LET next == NEXT_FLIST_ADDRESS(h, root_trace)
        prev == PREV_FLIST_ADDRESS(h, root_trace)
    IN  IF next = NULL
        THEN IF new_ptr <= root_trace
             THEN PUT(PUT(PUT(PUT(h, PREV_ADDRESS(root_trace), new_ptr),
                              NEXT_ADDRESS(new_ptr), root_trace),
                          PREV_ADDRESS(new_ptr), prev),
                      NEXT_ADDRESS(prev), new_ptr)
             ELSE PUT(PUT(h, NEXT_ADDRESS(root_trace), new_ptr),
                      PREV_ADDRESS(new_ptr), root_trace)
        ELSE PUT(PUT(PUT(PUT(h, NEXT_ADDRESS(new_ptr), root_trace),
                         PREV_ADDRESS(new_ptr), prev),
                     NEXT_ADDRESS(prev), new_ptr),
                 PREV_ADDRESS(root_trace), new_ptr)

\* cases 1 to 3, then the walk; h is the heap once ptr's links are cleared
add_block_insert(h, ptr, list_num) ==
    LET new_ptr == ptr
        root == GET_ROOT(h, list_num)
    IN  IF root = NULL THEN SET_ROOT(h, list_num, ptr)
        ELSE IF root > new_ptr
        THEN PUT(PUT(SET_ROOT(h, list_num, ptr), NEXT_ADDRESS(ptr), root),
                 PREV_ADDRESS(root), ptr)
        ELSE IF ~AllValid({root, PREV_ADDRESS(root)}) THEN Fault(h)
        ELSE IF NEXT_FLIST_ADDRESS(h, root) = NULL
        THEN PUT(PUT(h, NEXT_ADDRESS(root), ptr), PREV_ADDRESS(ptr), root)
        ELSE add_block_link(h, new_ptr, add_block_walk(h, root, new_ptr, ArenaWords))

add_block(h0, ptr) ==
    IF h0.fault \/ ~AllValid({HDRP(ptr), ptr, PREV_ADDRESS(ptr)}) THEN Fault(h0)
    ELSE add_block_insert(PUT(PUT(h0, NEXT_ADDRESS(ptr), NULL), PREV_ADDRESS(ptr), NULL),
                          ptr, get_list(GET_SIZE(h0, HDRP(ptr))))

R(h, ret) == [h |-> h, ret |-> ret]

\* PUT(FTRP(ptr), w): the footer address is read back from the header
SetFooter(h, ptr, w) == IF h.fault THEN h ELSE PUT(h, FTRP(h, ptr), w)
\* PUT(HDRP(ptr), w); PUT(FTRP(ptr), w)
SetTags(h, ptr, w) == SetFooter(PUT(h, HDRP(ptr), w), ptr, w)

\* ---- coalesce ----
coalesce_next(h, ptr, next_block, ptr_size0) ==
    R(add_block(SetTags(remove_block(h, next_block), ptr,
                        PACK(Add(ptr_size0, GET_SIZE(h, HDRP(next_block))), 2, 0)),
                ptr),
      ptr)

coalesce_prev(h, ptr, ptr_size0) ==
    IF ~Valid(Sub(ptr, DWORD)) THEN R(Fault(h), NULL)
    ELSE
    LET prev_block == PREV_BLOCK(h, ptr)
    IN  IF ~Valid(HDRP(prev_block)) THEN R(Fault(h), NULL)
        ELSE
        LET other_block_size == GET_SIZE(h, HDRP(prev_block))
            ptr_size == Add(ptr_size0, other_block_size)
            list_num == get_list(other_block_size)
        IN  IF 2 ^ list_num <= ptr_size
            THEN R(add_block(SetTags(remove_block(h, prev_block), prev_block,
                                     PACK(ptr_size, 2, 0)),
                             prev_block),
                   prev_block)
            ELSE R(SetTags(h, prev_block, PACK(ptr_size, 2, 0)), prev_block)

\* h1: the heap once next_block has left its list
coalesce_both_merge(h1, prev_block, next_block, ptr_size0) ==
    IF h1.fault \/ ~Valid(HDRP(prev_block)) THEN R(Fault(h1), NULL)
    ELSE
    LET ptr_size == Add(ptr_size0, Add(GET_SIZE(h1, HDRP(prev_block)),
                                       GET_SIZE(h1, HDRP(next_block))))
        list_num == get_list(GET_SIZE(h1, HDRP(prev_block)))
    IN  IF 2 ^ list_num > ptr_size
        THEN R(SetTags(h1, prev_block, PACK(ptr_size, 2, 0)), prev_block)
        ELSE R(add_block(SetTags(remove_block(h1, prev_block), prev_block,
                                 PACK(ptr_size, 2, 0)),
                         prev_block),
               prev_block)

coalesce_both(h, ptr, next_block, ptr_size0) ==
    IF ~Valid(Sub(ptr, DWORD)) THEN R(Fault(h), NULL)
    ELSE coalesce_both_merge(remove_block(h, next_block), PREV_BLOCK(h, ptr),
                             next_block, ptr_size0)

coalesce(h, ptr) ==
    IF h.fault \/ ~Valid(HDRP(ptr)) THEN R(Fault(h), NULL)
    ELSE
    LET prev_block_alloc == GET_PREV_ALLOC(h, HDRP(ptr))
        next_block == NEXT_BLOCK(h, ptr)
        ptr_size == GET_SIZE(h, HDRP(ptr))
    IN  IF ~Valid(HDRP(next_block)) THEN R(Fault(h), NULL)
        ELSE
        LET next_block_alloc == GET_ALLOC(h, HDRP(next_block))
        IN  IF prev_block_alloc # 0 /\ next_block_alloc = 0
            THEN coalesce_next(h, ptr, next_block, ptr_size)
            ELSE IF prev_block_alloc = 0 /\ next_block_alloc # 0
            THEN coalesce_prev(h, ptr, ptr_size)
            ELSE IF prev_block_alloc # 0 /\ next_block_alloc # 0
            THEN R(add_block(h, ptr), ptr)
            ELSE coalesce_both(h, ptr, next_block, ptr_size)

\* ---- the backing collaborator: grow the region by incr bytes ----
\* h.denied records that the collaborator refused during the current call
mem_sbrk(h, incr, grant) ==
    IF ~grant \/ h.brk + incr > ArenaEnd THEN R([h EXCEPT !.denied = TRUE], SbrkFail)
    ELSE R([h EXCEPT !.brk = h.brk + incr], h.brk)

\* ---- extend_heap ----
\* h1: the heap once the new block has its header and footer; the new
\* epilogue follows it, then the block joins the free blocks
extend_heap_finish(h1, ptr, end_alloc) ==
    IF h1.fault THEN R(h1, NULL)
    ELSE
    LET epi == HDRP(NEXT_BLOCK(h1, ptr))
        h3 == [PUT(h1, epi, PACK(0, 0, 1)) EXCEPT !.heap_epilogue = epi]
    IN  IF end_alloc # 0 THEN R(add_block(h3, ptr), ptr)
        ELSE coalesce(h3, ptr)

\* g: what mem_sbrk answered
extend_heap_grown(g, size, end_alloc) ==
    IF g.ret = SbrkFail THEN R(g.h, NULL)
    ELSE extend_heap_finish(SetTags(g.h, g.ret, PACK(size, end_alloc, 0)), g.ret,
                            end_alloc)

extend_heap(h, words, grant) ==
    IF h.fault \/ ~Valid(h.heap_epilogue) THEN R(Fault(h), NULL)
    ELSE
    LET size == IF words % 2 = 1 THEN Mul(words + 1, WSIZE) ELSE Mul(words, WSIZE)
        end_alloc == GET_PREV_ALLOC(h, h.heap_epilogue)
    IN  extend_heap_grown(mem_sbrk(h, size, grant), size, end_alloc)

\* ---- find_fit ----
\* returns the block found, NULL, or 1 (never an address) when the scan
\* reads outside the arena or never ends
RECURSIVE find_fit_scan(_, _, _, _, _)
find_fit_scan(h, size, list_num, ptr, fuel) ==
    IF ptr = NULL
    THEN IF list_num + 1 < MAX_LISTS
         THEN find_fit_scan(h, size, list_num + 1, GET_ROOT(h, list_num + 1), fuel)
         ELSE NULL
    ELSE IF fuel = 0 \/ ~AllValid({HDRP(ptr), ptr}) THEN 1
    ELSE IF size <= GET_SIZE(h, HDRP(ptr)) THEN ptr
    ELSE find_fit_scan(h, size, list_num, NEXT_FLIST_ADDRESS(h, ptr), fuel - 1)

find_fit(h, size) ==
    LET list_num == get_list(size)
        ptr == find_fit_scan(h, size, list_num, GET_ROOT(h, list_num), ArenaWords)
    IN  IF ptr = 1 THEN R(Fault(h), NULL) ELSE R(h, ptr)

\* ---- place ----
\* h3: the heap once ptr's header carries the requested size
place_split(h3, ptr, frag_count) ==
    IF h3.fault THEN R(h3, NULL)
    ELSE R(add_block(SetTags(h3, NEXT_BLOCK(h3, ptr), PACK(frag_count, 2, 0)),
                     NEXT_BLOCK(h3, ptr)),
           ptr)

\* h: the heap place was called on; h1: the heap once ptr has left its list
place_cut(h, h1, ptr, size) ==
    LET next_block == NEXT_BLOCK(h, ptr)
        next_block_size == GET_SIZE(h, HDRP(next_block))
        old_size == GET_SIZE(h, HDRP(ptr))
        frag_count == Sub(old_size, size)
    IN  IF frag_count > FragLimit
        THEN place_split(PUT(PUT(h1, HDRP(next_block), PACK(next_block_size, 0, 1)),
                             HDRP(ptr), PACK(size, 2, 1)),
                         ptr, frag_count)
        ELSE R(PUT(PUT(h1, HDRP(next_block), PACK(next_block_size, 2, 1)),
                   HDRP(ptr), PACK(old_size, 2, 1)), ptr)

place(h, ptr, size) ==
    IF h.fault \/ ~Valid(HDRP(ptr)) THEN R(Fault(h), NULL)
    ELSE IF ~Valid(HDRP(NEXT_BLOCK(h, ptr))) THEN R(Fault(h), NULL)
    ELSE place_cut(h, remove_block(h, ptr), ptr, size)

\* mutant: rounds with ALIGN (8 bytes) instead of to double words
RoundSize_align8(size) ==
    IF size <= MinRequest THEN 2 * MinRequest
    ELSE Mul(WSIZE, Add(size, DWORD + (WSIZE - 1)) \div WSIZE)

\* ---- the request rounding shared by mm_malloc and mm_realloc ----
RoundSize(size) ==
    IF size <= MinRequest THEN 2 * MinRequest
    ELSE Mul(DWORD, Add(size, DWORD + (DWORD - 1)) \div DWORD)

\* ---- mm_init ----
\* e: what extend_heap answered
mm_init_done(e) ==
    IF e.ret = NULL THEN R([e.h EXCEPT !.heap_start = NULL], -1)
    ELSE R([e.h EXCEPT !.heap_start = e.ret], 0)

\* h2: the heap once the prologue has its header and footer; the epilogue
\* header follows it
mm_init_epilogue(h2, heap_prologue) ==
    LET epi == HDRP(NEXT_BLOCK(h2, heap_prologue))
    IN  PUT([h2 EXCEPT !.heap_epilogue = epi], epi, PACK(0, 2, 1))

\* the list roots are cleared, then the prologue is written
mm_init_roots(h0, free_start, heap_prologue) ==
    SetTags([h0 EXCEPT !.free_start = free_start,
                       !.heap_prologue = heap_prologue,
                       !.mem = [w \in DOMAIN h0.mem |->
                                 IF w * WSIZE >= free_start
                                    /\ w * WSIZE < free_start + MAX_LISTS * WSIZE
                                 THEN NULL ELSE h0.mem[w]]],
            heap_prologue, PACK(DWORD, 2, 1))

\* g: what mem_sbrk answered
mm_init_grown(g, grant2) ==
    IF g.ret = SbrkFail THEN R([g.h EXCEPT !.heap_prologue = SbrkFail], -1)
    ELSE mm_init_done(
           extend_heap(
             mm_init_epilogue(
               mm_init_roots(g.h, g.ret, Add(g.ret, (MAX_LISTS + 1) * WSIZE)),
               Add(g.ret, (MAX_LISTS + 1) * WSIZE)),
             CHUNKSIZE \div WSIZE, grant2))

mm_init(h, grant1, grant2) == mm_init_grown(mem_sbrk(h, InitBytes, grant1), grant2)

\* ---- mm_malloc ----
\* e: what extend_heap answered
mm_malloc_extended(e, size) ==
    IF e.ret = NULL THEN R(e.h, NULL)
    ELSE R(place(e.h, e.ret, size).h, e.ret)

\* f: what find_fit answered
mm_malloc_found(h, f, size, grant) ==
    IF f.h.fault THEN R(f.h, NULL)
    ELSE IF f.ret # NULL THEN R(place(h, f.ret, size).h, f.ret)
    ELSE mm_malloc_extended(
           extend_heap(h, (IF size > CHUNKSIZE THEN size ELSE CHUNKSIZE) \div WSIZE, grant),
           size)

mm_malloc(h, size0, grant) ==
    IF size0 = 0 THEN R(h, NULL)
    ELSE mm_malloc_found(h, find_fit(h, RoundSize(size0)), RoundSize(size0), grant)

\* ---- mm_free ----
\* h2: the heap once ptr is tagged free and the successor's header has lost
\* its previous-allocated flag; a free successor has a footer to match
mm_free_footer(h2, next_block, next_block_size, next_block_alloc) ==
    IF h2.fault \/ next_block_alloc # 0 THEN h2
    ELSE PUT(h2, FTRP(h2, next_block), PACK(next_block_size, 0, 0))

mm_free(h, ptr) ==
    IF h.fault \/ ~Valid(HDRP(ptr)) THEN Fault(h)
    ELSE
    LET ptr_size == GET_SIZE(h, HDRP(ptr))
        next_block == NEXT_BLOCK(h, ptr)
        prev_block_alloc == GET_PREV_ALLOC(h, HDRP(ptr))
    IN  IF ~Valid(HDRP(next_block)) THEN Fault(h)
        ELSE
        LET next_block_size == GET_SIZE(h, HDRP(next_block))
            next_block_alloc == GET_ALLOC(h, HDRP(next_block))
        IN  coalesce(
              mm_free_footer(
                PUT(SetTags(h, ptr, PACK(ptr_size, prev_block_alloc, 0)),
                    HDRP(next_block), PACK(next_block_size, 0, next_block_alloc)),
                next_block, next_block_size, next_block_alloc),
              ptr).h

\* ---- memcpy: n bytes, word by word; the copy order only shows when the
\*      two ranges overlap, where the C library is free to choose it ----
RECURSIVE copy_words(_, _, _, _, _, _)
copy_words(h, dst, src, i, step, left) ==
    IF left = 0 \/ h.fault THEN h
    ELSE IF ~Valid(Add(src, i * WSIZE)) THEN Fault(h)
    ELSE copy_words(PUT(h, Add(dst, i * WSIZE), GET(h, Add(src, i * WSIZE))),
                    dst, src, i + step, step, left - 1)

memcpy(h, dst, src, n, dir) ==
    LET words == n \div WSIZE
    IN  IF dir = "up" THEN copy_words(h, dst, src, 0, 1, words)
        ELSE copy_words(h, dst, src, words - 1, -1, words)

\* ---- mm_realloc ----
\* h2: the heap once ptr's header carries both sizes; the block after the
\* grown one is told its predecessor is allocated
realloc_absorb_mark(h2, ptr) ==
    IF h2.fault \/ ~Valid(HDRP(NEXT_BLOCK(h2, ptr))) THEN R(Fault(h2), NULL)
    ELSE R(PUT(h2, HDRP(NEXT_BLOCK(h2, ptr)),
               PACK(GET_SIZE(h2, HDRP(NEXT_BLOCK(h2, ptr))), 2, 1)),
           ptr)

\* lines 504-511: absorb the free successor
realloc_absorb(h, ptr, old_size, old_prev_alloc, next_ptr, next_size) ==
    realloc_absorb_mark(PUT(remove_block(h, next_ptr), HDRP(ptr),
                            PACK(Add(next_size, old_size), old_prev_alloc, 1)),
                        ptr)

\* m: what mm_malloc answered
realloc_copy_move(m, ptr, size, dir) ==
    IF m.h.fault \/ m.ret = NULL THEN R(m.h, NULL)
    ELSE R(mm_free(memcpy(m.h, m.ret, ptr, size, dir), ptr), m.ret)

\* mutant: gives the old block up before knowing the new one exists
realloc_copy_freefirst(h, ptr, size, grant, dir) ==
    realloc_copy_move(mm_malloc(mm_free(h, ptr), size, grant), ptr, size, dir)

\* lines 512-521: allocate, copy size bytes, free
realloc_copy(h, ptr, size, grant, dir) ==
    realloc_copy_move(mm_malloc(h, size, grant), ptr, size, dir)

\* lines 502-503: the test that chooses between the two ways to grow
CanAbsorb(size, old_size, next_alloc, next_size) ==
    next_alloc = 0 /\ Add(next_size, old_size) > size

\* h1: the heap once ptr's header carries the smaller size; the tail
\* becomes a block of its own and is freed
realloc_shrink_cut(h1, ptr, size, old_size) ==
    R(mm_free(PUT(h1, HDRP(NEXT_BLOCK(h1, ptr)), PACK(Sub(old_size, size), 2, 1)),
              NEXT_BLOCK(h1, ptr)),
      ptr)

\* mutant: the shrink branch with its guard and threshold repaired
realloc_shrink_split(h, ptr, size, old_size, next_alloc) ==
    IF Sub(old_size, size) > FragLimit
    THEN realloc_shrink_cut(PUT(h, HDRP(ptr), PACK(size, GET_PREV_ALLOC(h, HDRP(ptr)), 1)),
                            ptr, size, old_size)
    ELSE R(h, ptr)

\* lines 523-534: the shrink branch, behind its constant-false guard
realloc_shrink(h, ptr, size, old_size, next_alloc) ==
    IF FALSE /\ next_alloc = 0
    THEN IF Sub(old_size, size) > 2 ^ 30
         THEN realloc_shrink_cut(PUT(h, HDRP(ptr),
                                     PACK(size, GET_PREV_ALLOC(h, HDRP(ptr)), 1)),
                                 ptr, size, old_size)
         ELSE R(h, ptr)
    ELSE R(h, ptr)

realloc_resize(h, ptr, size0, grant, dir) ==
    IF h.fault \/ ~Valid(HDRP(ptr)) THEN R(Fault(h), NULL)
    ELSE
    LET old_size == GET_SIZE(h, HDRP(ptr))
        old_prev_alloc == GET_PREV_ALLOC(h, HDRP(ptr))
        size == RoundSize(size0)
        next_ptr == NEXT_BLOCK(h, ptr)
    IN  IF ~Valid(HDRP(next_ptr)) THEN R(Fault(h), NULL)
        ELSE
        LET next_alloc == GET_ALLOC(h, HDRP(next_ptr))
            next_size == GET_SIZE(h, HDRP(next_ptr))
        IN  IF size = old_size THEN R(h, ptr)
            ELSE IF size > old_size
            THEN IF CanAbsorb(size, old_size, next_alloc, next_size)
                 THEN realloc_absorb(h, ptr, old_size, old_prev_alloc, next_ptr, next_size)
                 ELSE realloc_copy(h, ptr, size, grant, dir)
            ELSE realloc_shrink(h, ptr, size, old_size, next_alloc)

\* mutant: resize(p, 0) returns null without freeing p
mm_realloc_nofree(h, ptr, size0, grant, dir) ==
    IF ptr = NULL THEN mm_malloc(h, size0, grant)
    ELSE IF size0 = 0 THEN R(h, NULL)
    ELSE realloc_resize(h, ptr, size0, grant, dir)

mm_realloc(h, ptr, size0, grant, dir) ==
    IF ptr = NULL THEN mm_malloc(h, size0, grant)
    ELSE IF size0 = 0 THEN R(mm_free(h, ptr), NULL)
    ELSE realloc_resize(h, ptr, size0, grant, dir)

\* ================= the state machine =================
VARIABLES h, phase, live, aliased, call, ops, fills, wide
vars == <<h, phase, live, aliased, call, ops, fills, wide>>

JunkWords == {0, 680}          \* what memory never written may hold
Patterns == {85}               \* what a caller writes into its payload
Sizes == {24, 56, 232}         \* request sizes, in bytes
HugeSizes == {SizeMod - 1, SizeMod - 31}
Requests == IF wide THEN Sizes \cup HugeSizes ELSE Sizes
Dirs == {"up", "down"}
MemWords == (HeapBase \div WSIZE) .. (ArenaWords - 1)

NoCall == [op |-> "none", ptr |-> NULL, size |-> 0, ret |-> NULL]
Call(op, ptr, size, ret) == [op |-> op, ptr |-> ptr, size |-> size, ret |-> ret]

InitHeap(j) ==
    [mem |-> [w \in MemWords |-> j], brk |-> HeapBase, free_start |-> NULL,
     heap_prologue |-> NULL, heap_epilogue |-> NULL, heap_start |-> NULL,
     fault |-> FALSE, denied |-> FALSE]

InitCommon ==
    /\ \E j \in JunkWords : h = InitHeap(j)
    /\ phase = "new"
    /\ live = {}
    /\ aliased = FALSE
    /\ call = NoCall
    /\ ops = 0
    /\ fills = 0

Init == InitCommon /\ wide \in BOOLEAN
InitNarrow == InitCommon /\ wide = FALSE
OpsLeft == ops < (IF wide THEN MaxOpsWide ELSE MaxOps)

\* a public call starts with no refusal on record
Enter(hh) == [hh EXCEPT !.denied = FALSE]
After(hh) == IF hh.fault THEN "crashed" ELSE "ready"

DoInit ==
    /\ phase = "new"
    /\ \E r \in {mm_init(h, grant1, grant2) : grant1 \in BOOLEAN, grant2 \in BOOLEAN} :
         /\ h' = r.h
         /\ phase' = IF r.h.fault THEN "crashed"
                     ELSE IF r.ret = 0 THEN "ready" ELSE "failed"
         /\ call' = Call("init", NULL, 0, r.ret)
    /\ UNCHANGED <<live, aliased, ops, fills, wide>>

\* what the caller holds after a call that returned ret for n bytes
Returned(r, n, held) ==
    IF r.h.fault \/ r.ret = NULL THEN held ELSE held \cup {[p |-> r.ret, n |-> n]}
Aliases(r, held) ==
    ~r.h.fault /\ r.ret # NULL /\ r.ret \in {b.p : b \in held}

Allocate ==
    /\ phase = "ready" /\ OpsLeft
    /\ \E n \in Requests \cup {0} :
       \E r \in {mm_malloc(Enter(h), n, grant) : grant \in BOOLEAN} :
         /\ h' = r.h
         /\ phase' = After(r.h)
         /\ call' = Call("malloc", NULL, n, r.ret)
         /\ live' = Returned(r, n, live)
         /\ aliased' = (aliased \/ Aliases(r, live))
    /\ ops' = ops + 1
    /\ UNCHANGED <<fills, wide>>

Free ==
    /\ phase = "ready" /\ OpsLeft
    /\ \E a \in live :
       \E hh \in {mm_free(Enter(h), a.p)} :
         /\ h' = hh
         /\ phase' = After(hh)
         /\ call' = Call("free", a.p, 0, NULL)
         /\ live' = live \ {a}
    /\ ops' = ops + 1
    /\ UNCHANGED <<aliased, fills, wide>>

Resize ==
    /\ phase = "ready" /\ OpsLeft
    /\ \E a \in live, n \in Requests \cup {0} :
       \E r \in {mm_realloc(Enter(h), a.p, n, grant, dir) : grant \in BOOLEAN, dir \in Dirs} :
         /\ h' = r.h
         /\ phase' = After(r.h)
         /\ call' = Call("realloc", a.p, n, r.ret)
         /\ live' = IF r.h.fault THEN live
                    ELSE IF n = 0 THEN live \ {a}
                    ELSE IF r.ret = NULL THEN live
                    ELSE Returned(r, n, live \ {a})
         /\ aliased' = (aliased \/ Aliases(r, live \ {a}))
    /\ ops' = ops + 1
    /\ UNCHANGED <<fills, wide>>

ResizeNull ==
    /\ phase = "ready" /\ OpsLeft
    /\ \E n \in Requests \cup {0} :
       \E r \in {mm_realloc(Enter(h), NULL, n, grant, "up") : grant \in BOOLEAN} :
         /\ h' = r.h
         /\ phase' = After(r.h)
         /\ call' = Call("realloc", NULL, n, r.ret)
         /\ live' = Returned(r, n, live)
         /\ aliased' = (aliased \/ Aliases(r, live))
    /\ ops' = ops + 1
    /\ UNCHANGED <<fills, wide>>

\* the caller stores a pattern into the bytes it asked for
RECURSIVE fill_words(_, _, _, _)
fill_words(hh, p, v, left) ==
    IF left = 0 THEN hh
    ELSE fill_words(PUT(hh, Add(p, (left - 1) * WSIZE), v), p, v, left - 1)

Fill ==
    /\ phase = "ready" /\ fills < MaxFill
    /\ \E a \in live, v \in Patterns :
         /\ a.n <= ArenaEnd
         /\ \E hh \in {fill_words(Enter(h), a.p, v, a.n \div WSIZE)} :
              /\ h' = hh
              /\ phase' = After(hh)
              /\ call' = Call("fill", a.p, a.n, NULL)
    /\ fills' = fills + 1
    /\ UNCHANGED <<live, aliased, ops, wide>>

Next == DoInit \/ Allocate \/ Free \/ Resize \/ ResizeNull \/ Fill

Spec == Init /\ [][Next]_vars
SpecNarrow == InitNarrow /\ [][Next]_vars

\* ================= reading the heap =================
Ready == phase = "ready"
FirstBlock == Add(h.heap_prologue, DWORD)
BlockSize(hh, p) == GET_SIZE(hh, HDRP(p))
SpanEnd(hh, p) == p + BlockSize(hh, p) - WSIZE

\* the blocks met by stepping from p by header sizes, up to the epilogue
RECURSIVE Walk(_, _, _)
Walk(hh, p, fuel) ==
    IF fuel = 0 \/ ~Valid(HDRP(p)) \/ HDRP(p) = hh.heap_epilogue \/ BlockSize(hh, p) = 0
    THEN <<>>
    ELSE <<p>> \o Walk(hh, NEXT_BLOCK(hh, p), fuel - 1)
HeapBlocks(hh) == Walk(hh, Add(hh.heap_prologue, DWORD), ArenaWords)

\* the nodes linked from a list root, added to those already seen; a link
\* back to a node already seen ends the chain
RECURSIVE Chain(_, _, _)
Chain(hh, p, seen) ==
    IF p = NULL \/ ~Valid(p) \/ p \in seen THEN seen
    ELSE Chain(hh, NEXT_FLIST_ADDRESS(hh, p), seen \cup {p})
ListNodes(hh) == UNION {Chain(hh, GET_ROOT(hh, k), {}) : k \in 0 .. (MAX_LISTS - 1)}

\* ================= claims =================

\* C1: after init and any sequence of allocate/free/resize calls on live
\* addresses, the payload spans [p, p + blocksize(p) - 8) of the live
\* allocations are pairwise disjoint and lie between the prologue and the
\* epilogue header.
C1_SpansDisjoint ==
    Ready =>
      /\ ~aliased
      /\ \A a \in live :
           /\ Valid(HDRP(a.p))
           /\ a.p >= FirstBlock
           /\ SpanEnd(h, a.p) <= h.heap_epilogue
      /\ \A a, b \in live :
           a.p # b.p => (SpanEnd(h, a.p) <= b.p \/ SpanEnd(h, b.p) <= a.p)

GaveAddress == Ready /\ call.op \in {"malloc", "realloc"} /\ call.ret # NULL

\* C2 (as stated): every non-null address returned by allocate or resize is
\* a multiple of 16, the arena starting at a 16-byte-aligned address.
C2_Aligned16 == GaveAddress => call.ret % DWORD = 0

\* C2 (amended): every non-null address returned by allocate or resize is
\* 8-byte aligned and lies 8 bytes past a multiple of 16: the 19 words that
\* mm_init lays down put the first payload at base + 152.
C2_Aligned8 == GaveAddress => call.ret % DWORD = WSIZE

\* C2 witness: a resize that moved its block returned a new address
C2_Witness == GaveAddress /\ call.op = "realloc" /\ call.ptr # NULL /\ call.ret # call.ptr

\* a step that is one public call
PublicStep(op) == ops' = ops + 1 /\ call'.op = op
SameHeap(h1, h2) ==
    /\ h1.mem = h2.mem /\ h1.brk = h2.brk /\ h1.free_start = h2.free_start
    /\ h1.heap_prologue = h2.heap_prologue /\ h1.heap_epilogue = h2.heap_epilogue
FreeBlocks(hh) ==
    {b \in {HeapBlocks(hh)[i] : i \in 1 .. Len(HeapBlocks(hh))} : GET_ALLOC(hh, HDRP(b)) = 0}
NoFreeBlockFits(hh, size) == \A b \in FreeBlocks(hh) : BlockSize(hh, b) < size

\* C3: allocate(n) returns null exactly when n = 0, or when no free block is
\* at least the rounded request and the grow call is refused; otherwise it
\* returns the payload address of a block whose header has the allocated
\* flag set and which is in no free list.
C3_Step ==
    PublicStep("malloc") =>
      /\ phase' = "ready"
      /\ (call'.ret = NULL) <=>
           (call'.size = 0
              \/ (NoFreeBlockFits(h, RoundSize(call'.size)) /\ h'.denied))
      /\ call'.ret # NULL =>
           /\ Valid(HDRP(call'.ret))
           /\ GET_ALLOC(h', HDRP(call'.ret)) = 1
           /\ call'.ret \notin ListNodes(h')
C3_NullIffRefused == [][C3_Step]_vars

\* C4: when the grow call is refused during allocate(n) or resize(p, n), the
\* call returns null and every header, footer, root, link and the epilogue
\* position are as before the call; for resize, p is still allocated with
\* its original size.
C4_Step ==
    ((PublicStep("malloc") \/ PublicStep("realloc")) /\ h'.denied) =>
      /\ phase' = "ready"
      /\ call'.ret = NULL
      /\ SameHeap(h, h')
      /\ live' = live
C4_RefusalChangesNothing == [][C4_Step]_vars

\* C4 witness: a resize of a live block was refused memory
C4_Witness == Ready /\ call.op = "realloc" /\ call.ptr # NULL /\ h.denied

\* C5: for every request n >= 1 over the full range of size_t, a non-null
\* result of allocate(n) or resize(p, n) is a block whose size minus the
\* 8-byte header is at least n.
C5_BigEnough ==
    (GaveAddress /\ call.size >= 1) => BlockSize(h, call.ret) - WSIZE >= call.size

\* C6: resize(null, n) returns the same address and leaves the same heap as
\* allocate(n) from the same state; resize(p, 0) for a live p returns null
\* and leaves the same heap as free(p).
C6_Step ==
    PublicStep("realloc") =>
      /\ call'.ptr = NULL =>
           \E grant \in BOOLEAN :
           \E r \in {mm_malloc(Enter(h), call'.size, grant)} :
              /\ h' = r.h
              /\ call'.ret = r.ret
      /\ (call'.ptr # NULL /\ call'.size = 0) =>
           /\ h' = mm_free(Enter(h), call'.ptr)
           /\ call'.ret = NULL
C6_ResizeAliases == [][C6_Step]_vars

\* C6 witness: resize(p, 0) ran on a live p and the block is free again
C6_Witness ==
    /\ Ready /\ call.op = "realloc" /\ call.ptr # NULL /\ call.size = 0
    /\ GET_ALLOC(h, HDRP(call.ptr)) = 0

\* C7: for a live p of block size c and a request whose rounded size s > c,
\* if the heap successor of p is free with size f and c + f >= s, then
\* resize(p, n) returns p, the successor has left its free list, p's block
\* size is c + f and the new successor's previous-allocated flag is set.
C7_Step ==
    (PublicStep("realloc") /\ call'.ptr # NULL /\ call'.size >= 1
       /\ Valid(HDRP(call'.ptr)) /\ Valid(HDRP(NEXT_BLOCK(h, call'.ptr)))) =>
      LET p == call'.ptr
          c == BlockSize(h, p)
          s == RoundSize(call'.size)
          succ == NEXT_BLOCK(h, p)
          f == BlockSize(h, succ)
      IN  (s > c /\ GET_ALLOC(h, HDRP(succ)) = 0 /\ c + f >= s) =>
            /\ phase' = "ready"
            /\ call'.ret = p
            /\ succ \notin ListNodes(h')
            /\ BlockSize(h', p) = c + f
            /\ GET_PREV_ALLOC(h', HDRP(NEXT_BLOCK(h', p))) = 2
C7_GrowInPlace == [][C7_Step]_vars

\* C8: for a live p and n >= 1 whose rounded size is at most p's block size,
\* resize(p, n) returns p and changes nothing in the heap.
C8_Step ==
    (PublicStep("realloc") /\ call'.ptr # NULL /\ call'.size >= 1
       /\ Valid(HDRP(call'.ptr))
       /\ RoundSize(call'.size) <= BlockSize(h, call'.ptr)) =>
      /\ phase' = "ready"
      /\ call'.ret = call'.ptr
      /\ SameHeap(h, h')
PayloadWords(hh, p) ==
    {w \in MemWords : w * WSIZE >= p /\ w * WSIZE < SpanEnd(hh, p)}
C9_Step ==
    (PublicStep("realloc") /\ call'.ptr # NULL /\ call'.ret # NULL
       /\ phase' = "ready") =>
      \A a \in live :
        (a.p = call'.ptr /\ a.n >= 1 /\ call'.size >= a.n
           /\ a.n <= BlockSize(h, a.p) - WSIZE) =>
          /\ \A i \in 0 .. ((a.n \div WSIZE) - 1) :
               /\ Valid(call'.ret + i * WSIZE)
               /\ GET(h', call'.ret + i * WSIZE) = GET(h, a.p + i * WSIZE)
          /\ \A b \in live \ {a} :
               \A w \in PayloadWords(h, b.p) : h'.mem[w] = h.mem[w]
C9_ContentKept == [][C9_Step]_vars

\* C10: after init and after every allocate, free or resize call, no two
\* heap-adjacent blocks between the prologue and the epilogue both have the
\* allocated flag clear.
C10_NoAdjacentFree ==
    Ready =>
      \A i \in 1 .. Len(HeapBlocks(h)) :
        LET b == HeapBlocks(h)[i]
        IN  GET_ALLOC(h, HDRP(b)) = 0 =>
              /\ Valid(HDRP(NEXT_BLOCK(h, b)))
              /\ GET_ALLOC(h, HDRP(NEXT_BLOCK(h, b))) = 1

\* the bytes obtained by heap extensions: all that mem_sbrk granted after
\* the 19 words mm_init lays down
ExtensionBytes(hh) == hh.brk - HeapBase - InitBytes

\* C11: whenever every address returned so far has been freed, in whatever
\* order, the heap between the prologue and the epilogue is exactly one free
\* block that starts at the first block address, whose size is the total
\* number of bytes obtained by heap extensions, and that is the only node in
\* the registry.
C11_AllFreedOneBlock ==
    (Ready /\ live = {}) =>
      /\ HeapBlocks(h) = <<FirstBlock>>
      /\ GET_ALLOC(h, HDRP(FirstBlock)) = 0
      /\ BlockSize(h, FirstBlock) = ExtensionBytes(h)
      /\ ListNodes(h) = {FirstBlock}

\* the nodes linked in bucket k, and those of them that can hold s bytes
Bucket(hh, k) == Chain(hh, GET_ROOT(hh, k), {})
FitsIn(hh, k, s) == {b \in Bucket(hh, k) : Valid(HDRP(b)) /\ BlockSize(hh, b) >= s}
FitBuckets(hh, s) == {k \in get_list(s) .. (MAX_LISTS - 1) : FitsIn(hh, k, s) # {}}
Lowest(S) == CHOOSE x \in S : \A y \in S : x <= y
\* the call asked the collaborator to grow: it was refused, or the break moved
GrowCalled(h1, h2) == h2.denied \/ h2.brk # h1.brk

\* C12: for a rounded request size s, allocate takes its block from the
\* lowest-indexed bucket k >= classify(s) that holds a free block of size
\* >= s, choosing the lowest-address such block of that bucket, and it calls
\* the grow primitive only if no free block in the whole heap has size >= s.
C12_Step ==
    (PublicStep("malloc") /\ call'.size >= 1) =>
      LET s == RoundSize(call'.size)
      IN  /\ FitBuckets(h, s) # {} =>
                call'.ret = Lowest(FitsIn(h, Lowest(FitBuckets(h, s)), s))
          /\ GrowCalled(h, h') => NoFreeBlockFits(h, s)
C12_FirstFit == [][C12_Step]_vars

\* the nodes of bucket k in list order; a link back to a node already met is
\* kept as a repeated last element and ends the sequence
RECURSIVE ChainSeq(_, _, _)
ChainSeq(hh, p, acc) ==
    IF p = NULL \/ ~Valid(p) \/ ~Valid(PREV_ADDRESS(p)) THEN acc
    ELSE IF \E i \in 1 .. Len(acc) : acc[i] = p THEN Append(acc, p)
    ELSE ChainSeq(hh, NEXT_FLIST_ADDRESS(hh, p), Append(acc, p))
BucketSeq(hh, k) == ChainSeq(hh, GET_ROOT(hh, k), <<>>)
Buckets == 0 .. (MAX_LISTS - 1)

\* list k is well linked: it ends in NULL, each node's previous link names
\* the node before it (NULL for the first), and addresses strictly ascend
WellLinked(hh, k) ==
    LET nodes == BucketSeq(hh, k)
        n == Len(nodes)
    IN  /\ (n = 0) => GET_ROOT(hh, k) = NULL
        /\ (n > 0) => NEXT_FLIST_ADDRESS(hh, nodes[n]) = NULL
        /\ \A i \in 1 .. n :
             /\ PREV_FLIST_ADDRESS(hh, nodes[i]) = (IF i = 1 THEN NULL ELSE nodes[i - 1])
             /\ i > 1 => nodes[i - 1] < nodes[i]

\* C13: after init and after every public call, each free block of the heap
\* is linked in exactly one of the 16 bucket lists exactly once, every list
\* node is a free non-sentinel block, the next/previous links of each list
\* are mutually consistent and acyclic, and the addresses along each list
\* are strictly ascending.
C13_RegistryExact ==
    Ready =>
      /\ \A k \in Buckets : WellLinked(h, k)
      /\ ListNodes(h) = FreeBlocks(h)
      /\ \A b \in FreeBlocks(h) : Cardinality({k \in Buckets : b \in Bucket(h, k)}) = 1

\* ---- C14 ----
\* floor(log2(n)) for n >= 1
RECURSIVE FloorLog2(_)
FloorLog2(n) == IF n <= 1 THEN 0 ELSE 1 + FloorLog2(n \div 2)

\* the bucket the size classes give a block of the given size
Classify(size) ==
    IF FloorLog2(size) + 1 < MAX_LISTS - 1 THEN FloorLog2(size) + 1 ELSE MAX_LISTS - 1

\* C14: after init and after every public call, every free block is linked in
\* the bucket that classify gives for its current size,
\* min(floor(log2(size)) + 1, 15), which is the bucket get_list computes from
\* the current header and so the one remove_block would update.
C14_RightBucket ==
    Ready =>
      \A b \in FreeBlocks(h) :
        /\ get_list(BlockSize(h, b)) = Classify(BlockSize(h, b))
        /\ b \in Bucket(h, Classify(BlockSize(h, b)))

\* ---- C15 ----
\* the header of the block that follows the i-th block of the walk; the header
\* after the last block is where the walk stopped
HeaderAfter(hh, blocks, i) ==
    IF i < Len(blocks) THEN HDRP(blocks[i + 1]) ELSE HDRP(NEXT_BLOCK(hh, blocks[i]))

\* the header at addr records its predecessor, whose header is at pred, as
\* allocated exactly when the predecessor is allocated
PrevBitAgrees(hh, addr, pred) ==
    /\ Valid(addr)
    /\ (GET_PREV_ALLOC(hh, addr) # 0) <=> (GET_ALLOC(hh, pred) # 0)

\* C15: after init and after every public call, for every block after the
\* prologue, the epilogue included, the previous-allocated bit (bit 1) of
\* its header is set if and only if its heap predecessor is allocated.
C15_PrevBit ==
    Ready =>
      /\ PrevBitAgrees(h, HDRP(FirstBlock), HDRP(h.heap_prologue))
      /\ \A i \in 1 .. Len(HeapBlocks(h)) :
           PrevBitAgrees(h, HeaderAfter(h, HeapBlocks(h), i), HDRP(HeapBlocks(h)[i]))

\* ---- C16 ----
\* C16: after init and after every public call, the footer word of every free
\* block, the last 8 bytes of the block, equals its header word: same size,
\* same previous-allocated bit, allocated bit clear.
C16_FooterIsHeader ==
    Ready =>
      \A b \in FreeBlocks(h) :
        /\ Valid(FTRP(h, b))
        /\ FTRP(h, b) = HDRP(b) + BlockSize(h, b) - WSIZE
        /\ GET(h, FTRP(h, b)) = GET(h, HDRP(b))

\* ---- C17 ----
\* the header at which the walk from the first block stops
WalkEnd(hh) ==
    IF HeapBlocks(hh) = <<>> THEN HDRP(Add(hh.heap_prologue, DWORD))
    ELSE HeaderAfter(hh, HeapBlocks(hh), Len(HeapBlocks(hh)))

\* C17: after init and after every public call, the prologue and the epilogue
\* headers have the allocated flag set and neither is linked in any bucket
\* list, the epilogue has size 0 and is the last 8-byte word of the managed
\* region, and stepping from the first block after the prologue by header
\* sizes visits each block once and lands exactly on the epilogue header.
C17_Sentinels ==
    Ready =>
      /\ GET_ALLOC(h, HDRP(h.heap_prologue)) # 0
      /\ Valid(h.heap_epilogue)
      /\ GET_ALLOC(h, h.heap_epilogue) # 0
      /\ GET_SIZE(h, h.heap_epilogue) = 0
      /\ h.heap_epilogue = h.brk - WSIZE
      /\ ListNodes(h) \cap {h.heap_prologue, h.heap_epilogue + WSIZE} = {}
      /\ WalkEnd(h) = h.heap_epilogue
      /\ \A i, j \in 1 .. Len(HeapBlocks(h)) : i < j => HeapBlocks(h)[i] < HeapBlocks(h)[j]

\* ---- C18 ----
\* C18: after init and after every public call, every block between the
\* prologue and the epilogue, free or allocated, has a size that is a
\* multiple of 16 and at least 64 bytes, and every payload address is a
\* multiple of 8, the heap base being 8-byte aligned.
C18_BlockSizes ==
    Ready =>
      /\ HeapBase % WSIZE = 0
      /\ \A i \in 1 .. Len(HeapBlocks(h)) :
           /\ BlockSize(h, HeapBlocks(h)[i]) % DWORD = 0
           /\ BlockSize(h, HeapBlocks(h)[i]) >= FragLimit
           /\ HeapBlocks(h)[i] % WSIZE = 0

\* ---- C19 ----
\* the size of the free block that allocate places a request of rounded size
\* s in, when it answers p: a free block that fits is the block find_fit
\* gave; otherwise the heap grew by max(s, CHUNKSIZE) bytes, joined to the
\* free block at the end of the heap when p is that block
PlacedIn(hh, p, s) ==
    IF p \in FreeBlocks(hh) /\ BlockSize(hh, p) >= s THEN BlockSize(hh, p)
    ELSE (IF s > CHUNKSIZE THEN s ELSE CHUNKSIZE)
           + (IF p \in FreeBlocks(hh) THEN BlockSize(hh, p) ELSE 0)

IsAllocated(hh, p, size) ==
    /\ Valid(HDRP(p))
    /\ GET_ALLOC(hh, HDRP(p)) # 0
    /\ BlockSize(hh, p) = size

\* C19: when allocate places a rounded request of size s in a free block of
\* size B, B >= s; if B - s > 64 the allocated block has size exactly s and
\* a new free block of size exactly B - s starts immediately after it and is
\* in the registry; otherwise the allocated block has size B and no free
\* block is created.
C19_Step ==
    (PublicStep("malloc") /\ call'.ret # NULL /\ phase' = "ready") =>
      LET s == RoundSize(call'.size)
          p == call'.ret
      IN  /\ PlacedIn(h, p, s) >= s
          /\ PlacedIn(h, p, s) - s > FragLimit =>
               /\ IsAllocated(h', p, s)
               /\ (p + s) \in FreeBlocks(h')
               /\ BlockSize(h', p + s) = PlacedIn(h, p, s) - s
               /\ (p + s) \in ListNodes(h')
               /\ FreeBlocks(h') \subseteq (FreeBlocks(h) \ {p}) \cup {p + s}
          /\ PlacedIn(h, p, s) - s <= FragLimit =>
               /\ IsAllocated(h', p, PlacedIn(h, p, s))
               /\ FreeBlocks(h') \subseteq FreeBlocks(h) \ {p}
C19_PlaceSplits == [][C19_Step]_vars

\* ---- C20 ----
\* resize(ptr, size0) on heap hh takes the allocate-copy-free path: the
\* rounded size is above the block's size and the successor cannot be absorbed
OnCopyPath(hh, ptr, size0) ==
    /\ ptr # NULL /\ size0 # 0
    /\ Valid(HDRP(ptr))
    /\ Valid(HDRP(NEXT_BLOCK(hh, ptr)))
    /\ RoundSize(size0) > BlockSize(hh, ptr)
    /\ ~CanAbsorb(RoundSize(size0), BlockSize(hh, ptr),
                  GET_ALLOC(hh, HDRP(NEXT_BLOCK(hh, ptr))),
                  GET_SIZE(hh, HDRP(NEXT_BLOCK(hh, ptr))))

\* the third argument of the memcpy call: the rounded new size
CopiedBytes(size0) == RoundSize(size0)

\* C20: on resize's allocate-copy-free path, the number of bytes copied from
\* the old block is at most the old block's payload capacity (its size minus
\* the 8-byte header), the copy never reads past the end of the managed
\* region, and it writes only inside the new block's payload.
C20_Step ==
    (PublicStep("realloc") /\ OnCopyPath(h, call'.ptr, call'.size)
       /\ call'.ret # NULL /\ phase' = "ready") =>
      /\ CopiedBytes(call'.size) <= BlockSize(h, call'.ptr) - WSIZE
      /\ call'.ptr + CopiedBytes(call'.size) <= h'.brk
      /\ CopiedBytes(call'.size) <= BlockSize(h', call'.ret) - WSIZE
C20_CopyInBounds == [][C20_Step]_vars


====
